---- MODULE Spec2Model ----
(***************************************************************************)
(* Post lifecycle scheduler and comment-response pipeline of the           *)
(* Communication-Specialist backend (src/app/scheduler.py, src/app/main.py, *)
(* src/app/social_media_platforms.py).                                     *)
(*                                                                         *)
(* Threads of the program:                                                 *)
(*   - the request thread: main.py declares every endpoint `async def` and *)
(*     calls the scheduler synchronously, so schedule / edit / cancel /    *)
(*     manual comment monitoring run one at a time on the event loop;      *)
(*   - the job threads: every CommunicationScheduler owns a                *)
(*     BackgroundScheduler with a thread pool; all of them read the same   *)
(*     SQLAlchemyJobStore.  publish_scheduled_post builds a new            *)
(*     CommunicationScheduler on every run, so the number of scheduler     *)
(*     instances attached to the store grows with every publish run.       *)
(* Every database session commits UPDATEs of the columns it changed,       *)
(* whatever the row holds by then: a step of a handler is one read, one    *)
(* commit or one call on the job store, and other threads interleave       *)
(* between the steps.  A db.commit() may raise (store unavailable); the    *)
(* handler's except branch then rolls back, and in the publish handler the *)
(* db.rollback() of that branch may raise in its turn and leave the        *)
(* handler.  A call of a handler on the job store (add_job, remove_job,    *)
(* reschedule_job) may raise as well, for a job that is not in the store   *)
(* or as the store fails.                                                  *)
(*                                                                         *)
(* Specifications:                                                         *)
(*   Spec        the request thread and the publish timers and handlers;   *)
(*   SpecLive    Spec with weak fairness of the threads that run unasked;  *)
(*   SpecMonitor the comment-poll passes on a published post;              *)
(*   SpecSequential  those passes run one after the other;                 *)
(*   SpecJobs    the job threads alone: timers, handlers and poll passes   *)
(*               of a post that is due and a post that is monitored;       *)
(*   SpecJobsLive  SpecJobs with weak fairness of the job threads;         *)
(*   SpecResolve the event resolver (src/app/ai_agent.py) called on one    *)
(*               query and one candidate set, listed in any order;         *)
(*   SpecTime    the timestamp of one request from the date resolver to    *)
(*               the stored row and the timer, and a later edit of it.     *)
(***************************************************************************)
EXTENDS Integers, Sequences, FiniteSets, TLC

\* ---------------------------------------------------------------- bounds
MaxPosts == 2        \* post rows in SocialMediaPosts
MaxNewPosts == 1     \* post rows the schedule requests of one behaviour create
MaxInst == 2         \* scheduler instances attached to the job store
MaxTime == 2         \* distinct scheduled instants (IST wall clock)
MaxComments == 1     \* distinct platform comments
MaxPasses == 5       \* comment-poll passes started
MaxJobPasses == 2    \* comment-poll passes started next to the publish handlers
MaxEvents == 2       \* candidate events handed to the event resolver
MaxCalls == 2        \* calls of the event resolver on one query and candidate set
MaxEdits == 2        \* edits of the time of one scheduled post

\* ---------------------------------------------------------------- constants
RetryCap == 3        \* scheduler.py:497  retry_count >= 3
MaxInstances == 1    \* scheduler.py:52   job_defaults max_instances

PostIds == 1..MaxPosts
Inst == 1..MaxInst
Times == 1..MaxTime
CommentIds == 1..MaxComments
Manual == 0                      \* the request thread as runner of a poll pass
Runners == {Manual} \cup Inst

NoTime == 0                      \* Optional[datetime] = None / no job in the store
NoId == 0                        \* PlatformPostID = None
EmptyId == -1                    \* PlatformPostID = ""

\* SocialMediaManager.platforms keys
Platforms == {"linkedin", "twitter", "devto"}

\* platform lists a caller passes to schedule_post (None = default)
RequestLists == {<<"None">>, <<"twitter">>, <<"facebook">>, <<"DevTo">>,
                 <<"facebook", "devto">>, <<"twitter", "devto">>,
                 <<"linkedin", "twitter", "devto">>}

VARIABLES
    posts,          \* table SocialMediaPosts: PostID -> row
    publishJobs,    \* job store, jobs publish_<PostID>_<Platform>: PostID -> run date
    monitorJobs,    \* job store, jobs monitor_<PostID>_<Platform>: set of PostID
    instances,      \* number of running scheduler instances on the job store
    dueJobs,        \* per instance: publish jobs loaded as due, not yet submitted
    publishRun,     \* per instance and post: the publish handler execution
    request,        \* the request thread: the operation in progress
    comments,       \* table SocialMediaComments: CommentID -> row
    monitorRun,     \* per runner: the comment-poll pass in progress
    auditLog,       \* table AuditLog: entries per entity
    adapterCalls,   \* history: calls of the adapter's publish, per post
    cleanCancel,    \* history: cancel returned success before the timer fired
    passes,         \* history: poll passes started
    attempts,       \* history: poll passes that attempted a response, per comment
    replies,        \* history: replies sent successfully, per comment
    resolution,     \* the event resolver: query, candidates and the results of its calls
    timing          \* the timestamp of one request on its way to the row and the timer

commentVars == <<comments, monitorRun, passes, attempts, replies>>
resolverVars == <<resolution>>
timeVars == <<timing>>
vars == <<posts, publishJobs, monitorJobs, instances, dueJobs, publishRun,
          request, comments, monitorRun, auditLog, adapterCalls,
          cleanCancel, passes, attempts, replies, resolution, timing>>

Min(a, b) == IF a < b THEN a ELSE b

\* ---------------------------------------------------------------- rows
NoPost == [Status |-> "None", PlatformPostID |-> NoId, Content |-> "None",
           Time |-> NoTime, Platform |-> "None"]

NewPost(platform, t) ==
    [Status |-> "Scheduled", PlatformPostID |-> NoId, Content |-> "generated",
     Time |-> t, Platform |-> platform]

Exists(p) == posts[p].Status # "None"

\* not platform_post_id: None and "" alike
Falsy(id) == id \in {NoId, EmptyId}

FreeIds == {p \in PostIds : ~Exists(p)}

NextId == CHOOSE p \in FreeIds : \A q \in FreeIds : p <= q

\* ---------------------------------------------------------------- request thread
Idle == [op |-> "none", pc |-> "idle", post |-> 0, content |-> "None",
         time |-> NoTime, todo |-> <<>>, ok |-> FALSE, error |-> "None"]

Return(op, p, ok) == [Idle EXCEPT !.op = op, !.pc = "ret", !.post = p, !.ok = ok]

\* no execution of the publish handler; loaded is the row as the handler's
\* query returned it
IdleRun == [pc |-> "idle", id |-> NoId, loaded |-> [Status |-> "None", PlatformPostID |-> NoId]]

\* a SocialMediaComments row that does not exist
NoRow == [Status |-> "None", RetryCount |-> 0]

IdlePass == [pc |-> "idle", todo |-> <<>>, retry_count |-> 0, existing |-> FALSE,
             loaded |-> "None", status |-> "None", classified |-> FALSE]

\* raw comments an adapter's get_comments returns: comment_id ("" as 0) and html
RawComments ==
    {[comment_id |-> c, text |-> "<p>hi</p>"] : c \in CommentIds}
    \cup {[comment_id |-> 1, text |-> "<p></p>"], [comment_id |-> 0, text |-> "<p>hi</p>"]}

RECURSIVE SeqsUpTo(_, _)
SeqsUpTo(S, n) ==
    IF n = 0 THEN {<<>>}
    ELSE LET shorter == SeqsUpTo(S, n - 1) IN
         shorter \cup {Append(q, x) : q \in shorter, x \in S}

Ids(list) == {list[k].comment_id : k \in 1..Len(list)}

\* the comment lists of one fetch: no comment twice
FetchLists == {l \in SeqsUpTo(RawComments, MaxComments) : Cardinality(Ids(l)) = Len(l)}

\* the comments of the platform post of post p
CommentsOf(p) == {c \in CommentIds : ((c - 1) % MaxPosts) + 1 = p}

\* get_comments(platform_post_id): the comment lists a fetch for post p can return
FetchListsOf(p) == {l \in FetchLists : Ids(l) \subseteq CommentsOf(p) \cup {0}}

\* CommunicationScheduler.html_to_text: the text without its markup
html_to_text(html) == IF html = "<p>hi</p>" THEN "hi" ELSE IF html = "<p></p>" THEN "" ELSE html

\* ---------------------------------------------------------------- platforms
\* SocialMediaManager.get_available_platforms
get_available_platforms == Platforms

\* str.lower of a word or of a name
lower(word) ==
    IF word = "Today" THEN "today"
    ELSE IF word = "Webinar" THEN "webinar"
    ELSE IF word = "DevTo" THEN "devto"
    ELSE IF word = "TWITTER" THEN "twitter"
    ELSE word

\* SocialMediaManager.get_platform: platforms.get(platform_name.lower()), None
\* for an unknown name
get_platform(name) == IF lower(name) \in Platforms THEN lower(name) ELSE "None"

\* the platform filter of schedule_post
RECURSIVE FilterAvailable(_)
FilterAvailable(list) ==
    IF list = <<>> THEN <<>>
    ELSE IF Head(list) \in get_available_platforms
         THEN <<Head(list)>> \o FilterAvailable(Tail(list))
         ELSE FilterAvailable(Tail(list))

RequestedPlatforms(list) == IF list = <<"None">> THEN <<"devto">> ELSE list

\* no resolver call under observation
NoResolution == [query |-> <<>>, candidates |-> <<>>, results |-> <<>>]

\* no request under observation on the way of its timestamp
NoTiming == [pc |-> "none", input |-> <<>>, ist |-> <<>>, datetime |-> <<>>,
             scheduled_time_ist |-> <<>>, PostDate |-> 0, PostTime |-> 0,
             run_date |-> <<>>, naiveAs |-> {}, new_time_ist |-> <<>>, edits |-> 0]

\* ---------------------------------------------------------------- Init
Init ==
    /\ posts = [p \in PostIds |-> NoPost]
    /\ publishJobs = [p \in PostIds |-> NoTime]
    /\ monitorJobs = {}
    /\ instances = 1
    /\ dueJobs = [i \in Inst |-> {}]
    /\ publishRun = [i \in Inst |-> [p \in PostIds |-> IdleRun]]
    /\ request = Idle
    /\ comments = [c \in CommentIds |-> NoRow]
    /\ monitorRun = [r \in Runners |-> [p \in PostIds |-> IdlePass]]
    /\ auditLog = [posts |-> [p \in PostIds |-> 0],
                   comments |-> [c \in CommentIds |-> [success |-> 0, failed |-> 0]]]
    /\ adapterCalls = [p \in PostIds |-> 0]
    /\ cleanCancel = [p \in PostIds |-> FALSE]
    /\ passes = 0
    /\ attempts = [c \in CommentIds |-> 0]
    /\ replies = [c \in CommentIds |-> 0]
    /\ resolution = NoResolution
    /\ timing = NoTiming

\* ---------------------------------------------------------------- schedule_post
\* mutant of ScheduleFailure: the error is noted and the persist loop entered
ScheduleFailureFallsThrough(error, t, todo) ==
    [Idle EXCEPT !.op = "schedule", !.pc = "persist", !.time = t,
                 !.todo = <<"devto">>, !.error = error]

\* return {"success": False, "error": ...} of schedule_post
ScheduleFailure(error, t, todo) == [Return("schedule", 0, FALSE) EXCEPT !.error = error]

\* the errors of schedule_post that come from resolution: no date and time
\* parsed, no event in the store or none matched
ResolutionErrors == {"date", "event"}

\* parse_schedule_request fails (parsed), or the events table is empty or
\* find_matching_event fails (matched): failure to the caller.  Otherwise
\* the requested platforms are filtered to the available ones.
ScheduleBegin(list, t, parsed, matched) ==
    /\ request.pc = "idle"
    /\ LET todo == FilterAvailable(RequestedPlatforms(list)) IN
       request' = IF ~parsed THEN ScheduleFailure("date", t, todo)
                  ELSE IF ~matched THEN ScheduleFailure("event", t, todo)
                  ELSE IF todo = <<>> THEN ScheduleFailure("platforms", t, todo)
                  ELSE [Idle EXCEPT !.op = "schedule", !.pc = "persist",
                                    !.time = t, !.todo = todo]
    /\ UNCHANGED <<posts, publishJobs, monitorJobs, instances, dueJobs, publishRun,
                   adapterCalls, cleanCancel, auditLog>>
    /\ UNCHANGED commentVars
    /\ UNCHANGED resolverVars
    /\ UNCHANGED timeVars

\* the ends of db.commit(): it commits; it raises and db.rollback() of the
\* except branch succeeds; it raises and db.rollback() raises too
CommitResults == {"committed", "rolled back", "raised"}

\* the outer except of schedule_post, reached when the db.rollback() of the
\* loop's except branch raises: return {"success": False, "error": ...}, the
\* platforms that are left are not tried
ScheduleError == [Return("schedule", 0, FALSE) EXCEPT !.error = "store"]

ScheduleAfter(todo) ==
    IF todo = <<>> THEN Return("schedule", 0, TRUE)
    ELSE [request EXCEPT !.pc = "persist", !.todo = todo, !.post = 0]

\* one platform of the loop: content generation, then the row and its audit
\* entry in one commit.  A failed generation (continue) or a failed commit
\* that is rolled back skips the platform; a rollback that raises leaves the
\* loop for the outer except.  At most MaxNewPosts rows are created.
SchedulePersist(result) ==
    /\ request.op = "schedule" /\ request.pc = "persist"
    /\ result = "committed" => Cardinality(PostIds \ FreeIds) < MaxNewPosts
    /\ IF result = "committed"
       THEN /\ posts' = [posts EXCEPT ![NextId] = NewPost(Head(request.todo), request.time)]
            /\ auditLog' = [auditLog EXCEPT !.posts[NextId] = @ + 1]
            /\ request' = [request EXCEPT !.pc = "add_job", !.post = NextId]
       ELSE /\ request' = IF result = "raised" THEN ScheduleError
                          ELSE ScheduleAfter(Tail(request.todo))
            /\ UNCHANGED <<posts, auditLog>>
    /\ UNCHANGED <<publishJobs, monitorJobs, instances, dueJobs, publishRun,
                   adapterCalls, cleanCancel>>
    /\ UNCHANGED commentVars
    /\ UNCHANGED resolverVars
    /\ UNCHANGED timeVars

\* how the add_job of the loop ends: the job is in the store, or add_job
\* raised and the except branch rolled back, or that db.rollback() raised
AddJobResults == {"added", "rolled back", "raised"}

\* scheduler.add_job(publish_scheduled_post, DateTrigger(run_date), id=job_id).
\* When add_job raises, the except branch of the loop rolls back a session
\* that has nothing left to roll back: the row and its audit entry stay, the
\* platform is already in scheduled_posts and the loop goes on.  When that
\* rollback raises, the loop is left for the outer except.
ScheduleAddJob(result) ==
    /\ request.op = "schedule" /\ request.pc = "add_job"
    /\ publishJobs' = IF result = "added"
                      THEN [publishJobs EXCEPT ![request.post] = request.time]
                      ELSE publishJobs
    /\ request' = IF result = "raised" THEN ScheduleError
                  ELSE ScheduleAfter(Tail(request.todo))
    /\ UNCHANGED <<posts, monitorJobs, instances, dueJobs, publishRun,
                   adapterCalls, cleanCancel, auditLog>>
    /\ UNCHANGED commentVars
    /\ UNCHANGED resolverVars
    /\ UNCHANGED timeVars

\* the endpoint returns to the caller
RequestReturn ==
    /\ request.pc = "ret"
    /\ request' = Idle
    /\ UNCHANGED <<posts, publishJobs, monitorJobs, instances, dueJobs, publishRun,
                   adapterCalls, cleanCancel, auditLog>>
    /\ UNCHANGED commentVars
    /\ UNCHANGED resolverVars
    /\ UNCHANGED timeVars

\* names of the platform argument of cancel and of trigger_comment_monitoring
CancelPlatforms == {"devto", "twitter", "DevTo"}

\* ---------------------------------------------------------------- scheduler instances
\* the scheduler of main.py (instance 1) has been shut down
Stopped == request.pc = "stopped"

\* instance i runs on the job store: the scheduler of main.py until it is shut
\* down, and the instances that publish runs started, numbered from 2
Running(i) == IF Stopped THEN 1 < i /\ i <= instances + 1 ELSE i <= instances

\* the number of running instances with one more started, up to MaxInst
\* instances in all
Started == Min(instances + 1, IF Stopped THEN MaxInst - 1 ELSE MaxInst)

\* ---------------------------------------------------------------- publish timer
\* BackgroundScheduler._process_jobs of instance i, first half: the job store
\* hands out the due jobs (get_due_jobs).  Every instance attached to the store
\* loads the same job until one of them removes it.
TimerLoad(i, p) ==
    /\ Running(i)
    /\ publishJobs[p] # NoTime
    /\ p \notin dueJobs[i]
    /\ dueJobs' = [dueJobs EXCEPT ![i] = @ \cup {p}]
    /\ UNCHANGED <<posts, publishJobs, monitorJobs, instances, publishRun, request,
                   adapterCalls, cleanCancel, auditLog>>
    /\ UNCHANGED commentVars
    /\ UNCHANGED resolverVars
    /\ UNCHANGED timeVars

\* the post's publish job has been loaded as due by some instance: it has left
\* the store or is held by an instance that is about to submit it
TimerFired(p) == publishJobs[p] = NoTime \/ \E i \in Inst : p \in dueJobs[i]

RunningInstances(i, p) == IF publishRun[i][p].pc = "idle" THEN 0 ELSE 1

\* scheduler.remove_job(job_id): the job leaves the store
RemoveJob(jobs, p) == [jobs EXCEPT ![p] = NoTime]

\* second half: the loaded job is submitted to the instance's executor and, a
\* DateTrigger having no next fire time, removed from the store.  The executor
\* runs it unless max_instances runs of the job are active in this instance or
\* the run date is more than misfire_grace_time in the past (late).
TimerSubmit(i, p, late) ==
    /\ p \in dueJobs[i]
    /\ dueJobs' = [dueJobs EXCEPT ![i] = @ \ {p}]
    /\ publishJobs' = RemoveJob(publishJobs, p)
    /\ publishRun' = IF ~late /\ RunningInstances(i, p) < MaxInstances
                     THEN [publishRun EXCEPT ![i][p] = [IdleRun EXCEPT !.pc = "start"]]
                     ELSE publishRun
    /\ UNCHANGED <<posts, monitorJobs, instances, request, adapterCalls,
                   cleanCancel, auditLog>>
    /\ UNCHANGED commentVars
    /\ UNCHANGED resolverVars
    /\ UNCHANGED timeVars

\* ---------------------------------------------------------------- _publish_scheduled_post
\* mutant of NoOpStatus: the Cancelled check is missing
NoOpStatusPublishedOnly(status) == status = "Published"

\* the statuses on which the handler returns without publishing
NoOpStatus(status) == status \in {"Published", "Cancelled"}

\* publish_scheduled_post builds a CommunicationScheduler: one more scheduler
\* instance runs on the job store before the handler is called.  A constructor
\* that raises (the job store cannot be reached, scheduler.start() fails)
\* starts no instance, and its exception leaves publish_scheduled_post: the
\* handler is not called.
PublishStart(i, p, started) ==
    /\ publishRun[i][p].pc = "start"
    /\ instances' = IF started THEN Started ELSE instances
    /\ publishRun' = [publishRun EXCEPT ![i][p].pc = IF started THEN "read" ELSE "raised"]
    /\ UNCHANGED <<posts, publishJobs, monitorJobs, dueJobs, request, adapterCalls,
                   cleanCancel, auditLog>>
    /\ UNCHANGED commentVars
    /\ UNCHANGED resolverVars
    /\ UNCHANGED timeVars

\* the handler reads the row by PostID and Platform, then looks up the adapter
PublishRead(i, p) ==
    /\ publishRun[i][p].pc = "read"
    /\ publishRun' = [publishRun EXCEPT
          ![i][p].pc = IF ~Exists(p) \/ NoOpStatus(posts[p].Status) THEN "noop"
                       ELSE IF get_platform(posts[p].Platform) = "None" THEN "done"
                       ELSE "calling",
          ![i][p].loaded = [Status |-> posts[p].Status,
                            PlatformPostID |-> posts[p].PlatformPostID]]
    /\ UNCHANGED <<posts, publishJobs, monitorJobs, instances, dueJobs, request,
                   adapterCalls, cleanCancel, auditLog>>
    /\ UNCHANGED commentVars
    /\ UNCHANGED resolverVars
    /\ UNCHANGED timeVars

\* A publish job left in the persistent job store for a post row older than the
\* modelled ones runs: publish_scheduled_post builds its CommunicationScheduler,
\* and that instance keeps running on the shared job store.
PublishOlderPost ==
    /\ instances < Started
    /\ instances' = Started
    /\ UNCHANGED <<posts, publishJobs, monitorJobs, dueJobs, publishRun, request,
                   adapterCalls, cleanCancel, auditLog>>
    /\ UNCHANGED commentVars
    /\ UNCHANGED resolverVars
    /\ UNCHANGED timeVars

\* the answers of an adapter's schedule_post: success with the id of the new
\* platform post, success with "" for a 201 body without an id, an error
AdapterResults == {"id", "empty", "error"}

\* the application shuts down (main.py shutdown_event): no request is served
\* any more, and CommunicationScheduler.shutdown() stops the scheduler of
\* main.py once its thread and the jobs of its executor have ended.  The
\* instances that publish runs started keep running.
Shutdown ==
    /\ request.pc = "idle"
    /\ dueJobs[1] = {}
    /\ \A p \in PostIds : publishRun[1][p].pc = "idle" /\ monitorRun[1][p].pc = "idle"
    /\ instances' = instances - 1
    /\ request' = [Idle EXCEPT !.op = "shutdown", !.pc = "stopped"]
    /\ UNCHANGED <<posts, publishJobs, monitorJobs, dueJobs, publishRun, adapterCalls,
                   cleanCancel, auditLog>>
    /\ UNCHANGED commentVars
    /\ UNCHANGED resolverVars
    /\ UNCHANGED timeVars

\* cleanup_disabled_platform_jobs
disabled_platforms == {"linkedin"}

\* cleanup_disabled_platform_jobs: every job of the store whose platform
\* argument is a disabled platform, the publish job and the monitor job of a
\* post alike, is removed; a remove_job that raises is logged and the job stays.
CleanupDisabledPlatformJobs(p, removedPublish, removedMonitor) ==
    /\ posts[p].Platform \in disabled_platforms
    /\ publishJobs[p] # NoTime \/ p \in monitorJobs
    /\ publishJobs' = IF removedPublish THEN RemoveJob(publishJobs, p) ELSE publishJobs
    /\ monitorJobs' = IF removedMonitor THEN monitorJobs \ {p} ELSE monitorJobs
    /\ UNCHANGED <<posts, instances, dueJobs, publishRun, request, adapterCalls,
                   cleanCancel, auditLog>>
    /\ UNCHANGED commentVars
    /\ UNCHANGED resolverVars
    /\ UNCHANGED timeVars

\* platform_instance.schedule_post(content, now_ist): the adapters catch their
\* own exceptions and answer {"success": True, "post_id": id} or
\* {"success": False, "error": ...}.  Every call creates a platform post of its own.
PublishCall(i, p, result) ==
    /\ publishRun[i][p].pc = "calling"
    /\ adapterCalls' = [adapterCalls EXCEPT ![p] = @ + 1]
    /\ publishRun' = [publishRun EXCEPT ![i][p] =
          IF result = "id" THEN [@ EXCEPT !.pc = "success", !.id = adapterCalls[p] + 1]
          ELSE IF result = "empty" THEN [@ EXCEPT !.pc = "success", !.id = EmptyId]
          ELSE [@ EXCEPT !.pc = "failure"]]
    /\ UNCHANGED <<posts, publishJobs, monitorJobs, instances, dueJobs, request,
                   cleanCancel, auditLog>>
    /\ UNCHANGED commentVars
    /\ UNCHANGED resolverVars
    /\ UNCHANGED timeVars

\* post.Status = "Published", post.PlatformPostID = post_id on the row the
\* handler loaded: the UPDATE carries the columns whose value differs from the
\* loaded one.  The loaded Status is never Published.
PublishedRow(row, id, loaded) ==
    [row EXCEPT !.Status = "Published",
                !.PlatformPostID = IF id = loaded.PlatformPostID THEN @ ELSE id]

\* post.Status = "Failed" on the row the handler loaded: no UPDATE is sent for
\* a row that was loaded as Failed
FailedRow(row, loaded) ==
    IF loaded.Status = "Failed" THEN row ELSE [row EXCEPT !.Status = "Failed"]


\* except Exception: db.rollback(), notification; finally: db.close().  After
\* the rollback the handler ends as on any other path; an exception of
\* db.rollback() is caught by nothing and leaves the handler.
Caught(run, rolled_back) == [run EXCEPT !.pc = IF rolled_back THEN "done" ELSE "raised"]

\* db.commit() of the handler: UPDATE of the columns the handler changed.  A
\* commit that raises is rolled back and the handler ends.
PublishCommit(i, p, result) ==
    /\ publishRun[i][p].pc \in {"success", "failure"}
    /\ IF result = "committed"
       THEN /\ posts' = [posts EXCEPT ![p] =
                   IF publishRun[i][p].pc = "success"
                   THEN PublishedRow(@, publishRun[i][p].id, publishRun[i][p].loaded)
                   ELSE FailedRow(@, publishRun[i][p].loaded)]
            /\ publishRun' = [publishRun EXCEPT ![i][p].pc =
                   IF publishRun[i][p].pc = "success" THEN "register" ELSE "done"]
       ELSE /\ publishRun' = [publishRun EXCEPT ![i][p] = Caught(@, result = "rolled back")]
            /\ UNCHANGED posts
    /\ UNCHANGED <<publishJobs, monitorJobs, instances, dueJobs, request, adapterCalls,
                   cleanCancel, auditLog>>
    /\ UNCHANGED commentVars
    /\ UNCHANGED resolverVars
    /\ UNCHANGED timeVars

\* _schedule_comment_monitoring, first call on the job store:
\* remove_job(monitor_<PostID>_<Platform>).  Its exceptions (no such job, store
\* unavailable) are logged and the job stays as it is.
PublishUnregister(i, p, removed) ==
    /\ publishRun[i][p].pc = "register"
    /\ monitorJobs' = IF removed THEN monitorJobs \ {p} ELSE monitorJobs
    /\ publishRun' = [publishRun EXCEPT ![i][p].pc = "add_job"]
    /\ UNCHANGED <<posts, publishJobs, instances, dueJobs, request, adapterCalls,
                   cleanCancel, auditLog>>
    /\ UNCHANGED commentVars
    /\ UNCHANGED resolverVars
    /\ UNCHANGED timeVars

\* second call: add_job(_monitor_comments, CronTrigger, replace_existing); an
\* exception of it is logged and swallowed
PublishRegister(i, p, registered) ==
    /\ publishRun[i][p].pc = "add_job"
    /\ monitorJobs' = IF registered THEN monitorJobs \cup {p} ELSE monitorJobs
    /\ publishRun' = [publishRun EXCEPT ![i][p].pc = "done"]
    /\ UNCHANGED <<posts, publishJobs, instances, dueJobs, request, adapterCalls,
                   cleanCancel, auditLog>>
    /\ UNCHANGED commentVars
    /\ UNCHANGED resolverVars
    /\ UNCHANGED timeVars

\* the job function returns, or the executor catches the exception that left
\* it, and the executor releases the job instance
PublishReturn(i, p) ==
    /\ publishRun[i][p].pc \in {"noop", "done", "raised"}
    /\ publishRun' = [publishRun EXCEPT ![i][p] = IdleRun]
    /\ UNCHANGED <<posts, publishJobs, monitorJobs, instances, dueJobs, request,
                   adapterCalls, cleanCancel, auditLog>>
    /\ UNCHANGED commentVars
    /\ UNCHANGED resolverVars
    /\ UNCHANGED timeVars

\* ---------------------------------------------------------------- cancel_scheduled_post
\* filter_by(PostID, Platform, Status="Scheduled")
CancelFilter(row, platform) == row.Status = "Scheduled" /\ row.Platform = platform

CancelRead(p, platform) ==
    /\ request.pc = "idle"
    /\ request' = IF CancelFilter(posts[p], platform)
                  THEN [Idle EXCEPT !.op = "cancel", !.pc = "commit", !.post = p]
                  ELSE Return("cancel", p, FALSE)
    /\ UNCHANGED <<posts, publishJobs, monitorJobs, instances, dueJobs, publishRun,
                   adapterCalls, cleanCancel, auditLog>>
    /\ UNCHANGED commentVars
    /\ UNCHANGED resolverVars
    /\ UNCHANGED timeVars

CancelledRow(row) == [row EXCEPT !.Status = "Cancelled"]

\* post.Status = "Cancelled"; db.commit()
CancelCommit(committed) ==
    /\ request.op = "cancel" /\ request.pc = "commit"
    /\ IF committed
       THEN /\ posts' = [posts EXCEPT ![request.post] = CancelledRow(@)]
            /\ request' = [request EXCEPT !.pc = "remove_job"]
       ELSE /\ request' = Return("cancel", request.post, FALSE)
            /\ UNCHANGED posts
    /\ UNCHANGED <<publishJobs, monitorJobs, instances, dueJobs, publishRun,
                   adapterCalls, cleanCancel, auditLog>>
    /\ UNCHANGED commentVars
    /\ UNCHANGED resolverVars
    /\ UNCHANGED timeVars

\* scheduler.remove_job(job_id); every exception of it (no such job, store
\* unavailable) is only logged, and the job stays as it is
CancelRemoveJob(removed) ==
    /\ request.op = "cancel" /\ request.pc = "remove_job"
    /\ publishJobs' = IF removed THEN RemoveJob(publishJobs, request.post) ELSE publishJobs
    /\ cleanCancel' = [cleanCancel EXCEPT ![request.post] = ~TimerFired(request.post)]
    /\ request' = Return("cancel", request.post, TRUE)
    /\ UNCHANGED <<posts, monitorJobs, instances, dueJobs, publishRun,
                   adapterCalls, auditLog>>
    /\ UNCHANGED commentVars
    /\ UNCHANGED resolverVars
    /\ UNCHANGED timeVars

\* ---------------------------------------------------------------- edit_scheduled_post
\* filter_by(PostID, Status="Scheduled")
EditFilter(row) == row.Status = "Scheduled"

\* scheduler.reschedule_job(job_id, DateTrigger(new_time_ist)) on the stored job
RescheduleJob(jobs, p, t) == [jobs EXCEPT ![p] = t]

\* the query; the new content and the new time are set on the loaded row.
\* new_content "" counts as not given.
EditRead(p, new_content, new_time) ==
    /\ request.pc = "idle"
    /\ request' = IF ~EditFilter(posts[p]) THEN Return("edit", p, FALSE)
                  ELSE [Idle EXCEPT !.op = "edit", !.post = p,
                                    !.pc = IF new_time # NoTime THEN "reschedule"
                                           ELSE "commit",
                                    !.content = new_content, !.time = new_time]
    /\ UNCHANGED <<posts, publishJobs, monitorJobs, instances, dueJobs, publishRun,
                   adapterCalls, cleanCancel, auditLog>>
    /\ UNCHANGED commentVars
    /\ UNCHANGED resolverVars
    /\ UNCHANGED timeVars

\* reschedule_job for a new time: it raises JobLookupError when the job has
\* left the store, or as the store fails (rescheduled); the except branch
\* rolls back and returns the error.
EditReschedule(rescheduled) ==
    /\ request.op = "edit" /\ request.pc = "reschedule"
    /\ IF rescheduled /\ publishJobs[request.post] # NoTime
       THEN /\ publishJobs' = RescheduleJob(publishJobs, request.post, request.time)
            /\ request' = [request EXCEPT !.pc = "commit"]
       ELSE /\ request' = Return("edit", request.post, FALSE)
            /\ UNCHANGED publishJobs
    /\ UNCHANGED <<posts, monitorJobs, instances, dueJobs, publishRun,
                   adapterCalls, cleanCancel, auditLog>>
    /\ UNCHANGED commentVars
    /\ UNCHANGED resolverVars
    /\ UNCHANGED timeVars

EditedRow(row, new_content, new_time) ==
    [row EXCEPT !.Content = IF new_content \in {"None", ""} THEN @ ELSE new_content,
                !.Time = IF new_time = NoTime THEN @ ELSE new_time]

\* db.commit(): UPDATE of ContentPreview / PostDate / PostTime
EditCommit(committed) ==
    /\ request.op = "edit" /\ request.pc = "commit"
    /\ IF committed
       THEN /\ posts' = [posts EXCEPT ![request.post] =
                            EditedRow(@, request.content, request.time)]
            /\ request' = Return("edit", request.post, TRUE)
       ELSE /\ request' = Return("edit", request.post, FALSE)
            /\ UNCHANGED posts
    /\ UNCHANGED <<publishJobs, monitorJobs, instances, dueJobs, publishRun,
                   adapterCalls, cleanCancel, auditLog>>
    /\ UNCHANGED commentVars
    /\ UNCHANGED resolverVars
    /\ UNCHANGED timeVars

\* ---------------------------------------------------------------- _monitor_comments
InFlight(r, p) == monitorRun[r][p].pc # "idle"

RunningPasses(r, p) == IF InFlight(r, p) THEN 1 ELSE 0

PassesInFlight(p) == {r \in Runners : InFlight(r, p)}

\* the request thread after a step of a pass: trigger_comment_monitoring
\* returns success when its pass has ended
RequestAfterPass(r, p, ended) ==
    IF r = Manual /\ ended THEN Return("trigger", p, TRUE) ELSE request

\* get_platform, get_comments: the pass ends at once on a failed fetch or an
\* empty list, otherwise it walks the list
StartedPass(fetched, list) ==
    IF fetched /\ list # <<>> THEN [IdlePass EXCEPT !.pc = "check", !.todo = list]
    ELSE IdlePass

\* the monitor job fires in instance i (CronTrigger, max_instances = 1 per instance)
MonitorFire(i, p, fetched, list) ==
    /\ Running(i)
    /\ p \in monitorJobs
    /\ RunningPasses(i, p) < MaxInstances
    /\ passes < MaxPasses
    /\ passes' = passes + 1
    /\ monitorRun' = [monitorRun EXCEPT ![i][p] = StartedPass(fetched, list)]
    /\ UNCHANGED <<comments, attempts, replies, auditLog, request>>
    /\ UNCHANGED <<posts, publishJobs, monitorJobs, instances, dueJobs, publishRun,
                   adapterCalls, cleanCancel>>
    /\ UNCHANGED resolverVars
    /\ UNCHANGED timeVars

\* trigger_comment_monitoring: the row by PostID and Platform, its
\* PlatformPostID, then _monitor_comments in the request thread
TriggerMonitoring(p, platform, fetched, list) ==
    /\ request.pc = "idle"
    /\ passes < MaxPasses
    /\ IF ~Exists(p) \/ posts[p].Platform # platform \/ Falsy(posts[p].PlatformPostID)
       THEN /\ request' = Return("trigger", p, FALSE)
            /\ UNCHANGED <<monitorRun, passes>>
       ELSE /\ passes' = passes + 1
            /\ monitorRun' = [monitorRun EXCEPT ![Manual][p] = StartedPass(fetched, list)]
            /\ request' = IF StartedPass(fetched, list).pc = "idle"
                          THEN Return("trigger", p, TRUE)
                          ELSE [Idle EXCEPT !.op = "trigger", !.pc = "monitor", !.post = p]
    /\ UNCHANGED <<comments, attempts, replies, auditLog>>
    /\ UNCHANGED <<posts, publishJobs, monitorJobs, instances, dueJobs, publishRun,
                   adapterCalls, cleanCancel>>
    /\ UNCHANGED resolverVars
    /\ UNCHANGED timeVars

\* the pass after the comment at the head of its list
NextComment(pass) ==
    IF Len(pass.todo) <= 1 THEN IdlePass
    ELSE [IdlePass EXCEPT !.pc = "check", !.todo = Tail(pass.todo)]

\* the retry cap
Exhausted(retry_count) == retry_count >= RetryCap

\* existing_comment.ResponseStatus = "Escalated" on a row loaded with the
\* ResponseStatus loaded: the UPDATE carries the columns whose value differs
\* from the loaded one
EscalatedRow(row, loaded) == IF loaded = "Escalated" THEN row ELSE [row EXCEPT !.Status = "Escalated"]

\* ResponseStatus = "Pending", RetryCount = retry_count + 1 on the loaded row
PendingRow(row, loaded, retry_count) ==
    [row EXCEPT !.Status = IF loaded = "Pending" THEN @ ELSE "Pending",
                !.RetryCount = retry_count + 1]

\* one comment of the loop, up to the query: validation of comment_id and
\* cleaned text, the existing row with its ResponseStatus and RetryCount, the
\* Responded skip.
MonitorCheck(r, p) ==
    /\ monitorRun[r][p].pc = "check"
    /\ LET pass == monitorRun[r][p]
           raw == Head(pass.todo)
           c == raw.comment_id
       IN
       IF c = 0 \/ html_to_text(raw.text) = ""
       THEN /\ monitorRun' = [monitorRun EXCEPT ![r][p] = NextComment(pass)]
            /\ request' = RequestAfterPass(r, p, NextComment(pass).pc = "idle")
       ELSE IF comments[c] = NoRow
       THEN /\ monitorRun' = [monitorRun EXCEPT ![r][p] =
                   [pass EXCEPT !.pc = "attempt", !.retry_count = 0, !.existing = FALSE]]
            /\ UNCHANGED request
       ELSE IF comments[c].Status = "Responded"
       THEN /\ monitorRun' = [monitorRun EXCEPT ![r][p] = NextComment(pass)]
            /\ request' = RequestAfterPass(r, p, NextComment(pass).pc = "idle")
       ELSE /\ monitorRun' = [monitorRun EXCEPT ![r][p] =
                   [pass EXCEPT !.pc = "mark", !.existing = TRUE,
                                !.loaded = comments[c].Status,
                                !.retry_count = comments[c].RetryCount]]
            /\ UNCHANGED request
    /\ UNCHANGED <<comments, passes, attempts, replies, auditLog>>
    /\ UNCHANGED <<posts, publishJobs, monitorJobs, instances, dueJobs, publishRun,
                   adapterCalls, cleanCancel>>
    /\ UNCHANGED resolverVars
    /\ UNCHANGED timeVars

\* the first commit of an existing row: escalation at the cap, otherwise
\* Pending with the RetryCount that was read + 1.  A commit that raises ends
\* the pass (outer except, rollback).
MonitorMark(r, p, committed) ==
    /\ monitorRun[r][p].pc = "mark"
    /\ LET pass == monitorRun[r][p]
           c == Head(pass.todo).comment_id
       IN
       IF ~committed
       THEN /\ monitorRun' = [monitorRun EXCEPT ![r][p] = IdlePass]
            /\ request' = RequestAfterPass(r, p, TRUE)
            /\ UNCHANGED comments
       ELSE IF Exhausted(pass.retry_count)
       THEN /\ comments' = [comments EXCEPT ![c] = EscalatedRow(@, pass.loaded)]
            /\ monitorRun' = [monitorRun EXCEPT ![r][p] = NextComment(pass)]
            /\ request' = RequestAfterPass(r, p, NextComment(pass).pc = "idle")
       ELSE /\ comments' = [comments EXCEPT ![c] =
                              PendingRow(@, pass.loaded, pass.retry_count)]
            /\ monitorRun' = [monitorRun EXCEPT ![r][p] =
                   [pass EXCEPT !.pc = "attempt", !.loaded = "None"]]
            /\ UNCHANGED request
    /\ UNCHANGED <<passes, attempts, replies, auditLog>>
    /\ UNCHANGED <<posts, publishJobs, monitorJobs, instances, dueJobs, publishRun,
                   adapterCalls, cleanCancel>>
    /\ UNCHANGED resolverVars
    /\ UNCHANGED timeVars

\* response_status of one attempt: classify_comment falls back to
\* "event-related" when it raises; a failed generation or a failed or raising
\* respond_to_comment gives Failed
ResponseStatus(generated, sent) == IF generated /\ sent THEN "Responded" ELSE "Failed"

\* the answers of platform_instance.respond_to_comment(comment_id,
\* response_text, parent_type=..., parent_id=...), TRUE for success: the
\* Twitter adapter sends the reply or reports an error; the Dev.to adapter
\* answers success False on every path; the LinkedIn adapter takes no keyword
\* arguments, so the call raises TypeError
respond_to_comment(platform) == IF platform = "twitter" THEN BOOLEAN ELSE {FALSE}

\* classification (classified: classify_comment answered with success),
\* response generation, respond_to_comment of the post's adapter
MonitorAttempt(r, p, classified, generated, sent) ==
    /\ monitorRun[r][p].pc = "attempt"
    /\ sent \in respond_to_comment(get_platform(posts[p].Platform))
    /\ LET c == Head(monitorRun[r][p].todo).comment_id IN
       /\ attempts' = [attempts EXCEPT ![c] = @ + 1]
       /\ replies' = [replies EXCEPT ![c] = IF generated /\ sent THEN @ + 1 ELSE @]
    /\ monitorRun' = [monitorRun EXCEPT ![r][p].pc = "persist",
                                        ![r][p].status = ResponseStatus(generated, sent),
                                        ![r][p].classified = classified]
    /\ UNCHANGED <<comments, passes, auditLog, request>>
    /\ UNCHANGED <<posts, publishJobs, monitorJobs, instances, dueJobs, publishRun,
                   adapterCalls, cleanCancel>>
    /\ UNCHANGED resolverVars
    /\ UNCHANGED timeVars

\* the UPDATE of an existing row: every column the pass assigns
UpdatedRow(row, status, retry_count) ==
    [row EXCEPT !.Status = status, !.RetryCount = retry_count + 1]

\* the INSERT of a new row
InsertedRow(status) == [Status |-> status, RetryCount |-> 1]

\* the second commit of a comment.  The pass updates the row it read before
\* the attempt, or inserts one when it had read none (a row inserted since
\* then makes the INSERT fail).  A commit that raises is rolled back, no audit
\* entry follows it and the loop goes on; when the db.rollback() raises too,
\* the outer except branches end the pass.
MonitorPersist(r, p, result) ==
    /\ monitorRun[r][p].pc = "persist"
    /\ LET pass == monitorRun[r][p]
           c == Head(pass.todo).comment_id
           saved == result = "committed" /\ (pass.existing \/ comments[c] = NoRow)
       IN
       IF saved
       THEN /\ comments' = IF pass.existing
                           THEN [comments EXCEPT ![c] =
                                    UpdatedRow(@, pass.status, pass.retry_count)]
                           ELSE [comments EXCEPT ![c] = InsertedRow(pass.status)]
            /\ monitorRun' = [monitorRun EXCEPT ![r][p].pc = "audit"]
            /\ UNCHANGED request
       ELSE IF result = "raised"
       THEN /\ monitorRun' = [monitorRun EXCEPT ![r][p] = IdlePass]
            /\ request' = RequestAfterPass(r, p, TRUE)
            /\ UNCHANGED comments
       ELSE /\ monitorRun' = [monitorRun EXCEPT ![r][p] = NextComment(pass)]
            /\ request' = RequestAfterPass(r, p, NextComment(pass).pc = "idle")
            /\ UNCHANGED comments
    /\ UNCHANGED <<passes, attempts, replies, auditLog>>
    /\ UNCHANGED <<posts, publishJobs, monitorJobs, instances, dueJobs, publishRun,
                   adapterCalls, cleanCancel>>
    /\ UNCHANGED resolverVars
    /\ UNCHANGED timeVars

\* the audit entry of the attempt, in a commit of its own: Status "success"
\* when the reply was sent.  A commit that raises is rolled back; the row
\* stays as the second commit left it.  When the db.rollback() raises too,
\* the outer except branches end the pass.
MonitorAudit(r, p, result) ==
    /\ monitorRun[r][p].pc = "audit"
    /\ LET pass == monitorRun[r][p]
           c == Head(pass.todo).comment_id
           after == IF result = "raised" THEN IdlePass ELSE NextComment(pass)
       IN
       /\ auditLog' = IF result # "committed" THEN auditLog
                      ELSE IF pass.status = "Responded"
                      THEN [auditLog EXCEPT !.comments[c].success = @ + 1]
                      ELSE [auditLog EXCEPT !.comments[c].failed = @ + 1]
       /\ monitorRun' = [monitorRun EXCEPT ![r][p] = after]
       /\ request' = RequestAfterPass(r, p, after.pc = "idle")
    /\ UNCHANGED <<comments, passes, attempts, replies>>
    /\ UNCHANGED <<posts, publishJobs, monitorJobs, instances, dueJobs, publishRun,
                   adapterCalls, cleanCancel>>
    /\ UNCHANGED resolverVars
    /\ UNCHANGED timeVars

\* new_content of an edit request: None, empty, a new text
NewContents == {"None", "", "edited"}

Next ==
    \/ \E list \in RequestLists, t \in Times, parsed, matched \in BOOLEAN :
          ScheduleBegin(list, t, parsed, matched)
    \/ \E result \in CommitResults : SchedulePersist(result)
    \/ \E result \in AddJobResults : ScheduleAddJob(result)
    \/ RequestReturn
    \/ \E i \in Inst, p \in PostIds : TimerLoad(i, p)
    \/ \E i \in Inst, p \in PostIds, late \in BOOLEAN : TimerSubmit(i, p, late)
    \/ PublishOlderPost
    \/ \E i \in Inst, p \in PostIds, started \in BOOLEAN : PublishStart(i, p, started)
    \/ \E i \in Inst, p \in PostIds : PublishRead(i, p)
    \/ \E i \in Inst, p \in PostIds, result \in AdapterResults : PublishCall(i, p, result)
    \/ \E i \in Inst, p \in PostIds, result \in CommitResults : PublishCommit(i, p, result)
    \/ \E i \in Inst, p \in PostIds, removed \in BOOLEAN : PublishUnregister(i, p, removed)
    \/ \E i \in Inst, p \in PostIds, registered \in BOOLEAN : PublishRegister(i, p, registered)
    \/ \E i \in Inst, p \in PostIds : PublishReturn(i, p)
    \/ \E p \in PostIds, platform \in CancelPlatforms : CancelRead(p, platform)
    \/ \E committed \in BOOLEAN : CancelCommit(committed)
    \/ \E removed \in BOOLEAN : CancelRemoveJob(removed)
    \/ \E p \in PostIds, c \in NewContents, t \in Times \cup {NoTime} : EditRead(p, c, t)
    \/ \E rescheduled \in BOOLEAN : EditReschedule(rescheduled)
    \/ \E committed \in BOOLEAN : EditCommit(committed)
    \/ Shutdown
    \/ \E p \in PostIds, removedPublish, removedMonitor \in BOOLEAN :
          CleanupDisabledPlatformJobs(p, removedPublish, removedMonitor)

Spec == Init /\ [][Next]_vars

\* ---------------------------------------------------------------- progress
\* What keeps running without a caller: the BackgroundScheduler thread of every
\* instance wakes up for the due jobs and submits them, the executor's threads
\* run the handlers to their end, and a request that has begun runs to its
\* response.  Nothing bounds how late a wake-up is: whether the run date is
\* more than misfire_grace_time in the past is not under the scheduler's control.
Fairness ==
    /\ WF_vars(\E i \in Inst, p \in PostIds : TimerLoad(i, p))
    /\ WF_vars(\E i \in Inst, p \in PostIds, late \in BOOLEAN : TimerSubmit(i, p, late))
    /\ WF_vars(\E i \in Inst, p \in PostIds, started \in BOOLEAN : PublishStart(i, p, started))
    /\ WF_vars(\E i \in Inst, p \in PostIds : PublishRead(i, p))
    /\ WF_vars(\E i \in Inst, p \in PostIds, result \in AdapterResults :
                  PublishCall(i, p, result))
    /\ WF_vars(\E i \in Inst, p \in PostIds, result \in CommitResults :
                  PublishCommit(i, p, result))
    /\ WF_vars(\E i \in Inst, p \in PostIds, removed \in BOOLEAN :
                  PublishUnregister(i, p, removed))
    /\ WF_vars(\E i \in Inst, p \in PostIds, registered \in BOOLEAN :
                  PublishRegister(i, p, registered))
    /\ WF_vars(\E i \in Inst, p \in PostIds : PublishReturn(i, p))
    /\ WF_vars(\E result \in CommitResults : SchedulePersist(result))
    /\ WF_vars(\E result \in AddJobResults : ScheduleAddJob(result))
    /\ WF_vars(\E committed \in BOOLEAN : CancelCommit(committed))
    /\ WF_vars(\E removed \in BOOLEAN : CancelRemoveJob(removed))
    /\ WF_vars(\E rescheduled \in BOOLEAN : EditReschedule(rescheduled))
    /\ WF_vars(\E committed \in BOOLEAN : EditCommit(committed))
    /\ WF_vars(RequestReturn)

SpecLive == Init /\ [][Next]_vars /\ Fairness

\* ---------------------------------------------------------------- comment pipeline
\* The state after one post was scheduled on one of the platforms, published
\* by instance 1 and registered for monitoring; the publish run left a second
\* scheduler instance.
InitMonitor ==
    /\ \E platform \in Platforms :
          posts = [p \in PostIds |->
                     IF p = 1 THEN [NewPost(platform, 1) EXCEPT !.Status = "Published",
                                                                !.PlatformPostID = 1]
                     ELSE NoPost]
    /\ publishJobs = [p \in PostIds |-> NoTime]
    /\ monitorJobs = {1}
    /\ instances = Min(2, MaxInst)
    /\ dueJobs = [i \in Inst |-> {}]
    /\ publishRun = [i \in Inst |-> [p \in PostIds |-> IdleRun]]
    /\ request = Idle
    /\ comments = [c \in CommentIds |-> NoRow]
    /\ monitorRun = [r \in Runners |-> [p \in PostIds |-> IdlePass]]
    /\ auditLog = [posts |-> [p \in PostIds |-> IF p = 1 THEN 1 ELSE 0],
                   comments |-> [c \in CommentIds |-> [success |-> 0, failed |-> 0]]]
    /\ adapterCalls = [p \in PostIds |-> IF p = 1 THEN 1 ELSE 0]
    /\ cleanCancel = [p \in PostIds |-> FALSE]
    /\ passes = 0
    /\ attempts = [c \in CommentIds |-> 0]
    /\ replies = [c \in CommentIds |-> 0]
    /\ resolution = NoResolution
    /\ timing = NoTiming

NextMonitor ==
    \/ \E i \in Inst, p \in PostIds, fetched \in BOOLEAN : \E list \in FetchListsOf(p) :
          MonitorFire(i, p, fetched, list)
    \/ \E p \in PostIds, platform \in CancelPlatforms, fetched \in BOOLEAN :
          \E list \in FetchListsOf(p) : TriggerMonitoring(p, platform, fetched, list)
    \/ \E r \in Runners, p \in PostIds : MonitorCheck(r, p)
    \/ \E r \in Runners, p \in PostIds, committed \in BOOLEAN : MonitorMark(r, p, committed)
    \/ \E r \in Runners, p \in PostIds, classified, generated, sent \in BOOLEAN :
          MonitorAttempt(r, p, classified, generated, sent)
    \/ \E r \in Runners, p \in PostIds, result \in CommitResults :
          MonitorPersist(r, p, result)
    \/ \E r \in Runners, p \in PostIds, result \in CommitResults :
          MonitorAudit(r, p, result)
    \/ RequestReturn

SpecMonitor == InitMonitor /\ [][NextMonitor]_vars

\* ---------------------------------------------------------------- sequential passes
\* the comment lists of a post whose comments the adapter returns on every
\* fetch, each with its id and a text
ReturnedLists ==
    {l \in FetchLists :
        \A c \in CommentIds :
            \E k \in 1..Len(l) : l[k] = [comment_id |-> c, text |-> "<p>hi</p>"]}

\* the monitor job fires while no pass is in flight for the post, and the
\* adapter returns the post's comments
SequentialFire(i, p, list) ==
    /\ PassesInFlight(p) = {}
    /\ MonitorFire(i, p, TRUE, list)

\* the poll passes of a published post one after the other: the firings of
\* the monitor timer of one scheduler instance at a time
NextSequential ==
    \/ \E i \in Inst, p \in PostIds, list \in ReturnedLists : SequentialFire(i, p, list)
    \/ \E r \in Runners, p \in PostIds : MonitorCheck(r, p)
    \/ \E r \in Runners, p \in PostIds, committed \in BOOLEAN : MonitorMark(r, p, committed)
    \/ \E r \in Runners, p \in PostIds, classified, generated, sent \in BOOLEAN :
          MonitorAttempt(r, p, classified, generated, sent)
    \/ \E r \in Runners, p \in PostIds, result \in CommitResults :
          MonitorPersist(r, p, result)
    \/ \E r \in Runners, p \in PostIds, result \in CommitResults :
          MonitorAudit(r, p, result)

SpecSequential == InitMonitor /\ [][NextSequential]_vars

\* ---------------------------------------------------------------- job threads
\* The state after schedule_post returned for post 1, on twitter: the row is
\* Scheduled and its publish job is in the store.  Post 2, on devto, was
\* published and registered for monitoring before the application was last
\* started: its monitor job is in the store.  From here only the job threads
\* act: the timers, the publish handler and the comment-poll passes of the
\* scheduler instances.
InitJobs ==
    /\ posts = [p \in PostIds |->
                  IF p = 1 THEN NewPost("twitter", 1)
                  ELSE [NewPost("devto", 1) EXCEPT !.Status = "Published",
                                                   !.PlatformPostID = 1]]
    /\ publishJobs = [p \in PostIds |-> IF p = 1 THEN 1 ELSE NoTime]
    /\ monitorJobs = PostIds \ {1}
    /\ instances = 1
    /\ dueJobs = [i \in Inst |-> {}]
    /\ publishRun = [i \in Inst |-> [p \in PostIds |-> IdleRun]]
    /\ request = Idle
    /\ comments = [c \in CommentIds |-> NoRow]
    /\ monitorRun = [r \in Runners |-> [p \in PostIds |-> IdlePass]]
    /\ auditLog = [posts |-> [p \in PostIds |-> 1],
                   comments |-> [c \in CommentIds |-> [success |-> 0, failed |-> 0]]]
    /\ adapterCalls = [p \in PostIds |-> IF p = 1 THEN 0 ELSE 1]
    /\ cleanCancel = [p \in PostIds |-> FALSE]
    /\ passes = 0
    /\ attempts = [c \in CommentIds |-> 0]
    /\ replies = [c \in CommentIds |-> 0]
    /\ resolution = NoResolution
    /\ timing = NoTiming

\* the monitor job fires in instance i, for at most MaxJobPasses passes
JobsFire(i, p, fetched, list) ==
    /\ passes < MaxJobPasses
    /\ MonitorFire(i, p, fetched, list)

NextJobs ==
    \/ \E i \in Inst, p \in PostIds : TimerLoad(i, p)
    \/ \E i \in Inst, p \in PostIds, late \in BOOLEAN : TimerSubmit(i, p, late)
    \/ PublishOlderPost
    \/ \E i \in Inst, p \in PostIds, started \in BOOLEAN : PublishStart(i, p, started)
    \/ \E i \in Inst, p \in PostIds : PublishRead(i, p)
    \/ \E i \in Inst, p \in PostIds, result \in AdapterResults : PublishCall(i, p, result)
    \/ \E i \in Inst, p \in PostIds, result \in CommitResults : PublishCommit(i, p, result)
    \/ \E i \in Inst, p \in PostIds, removed \in BOOLEAN : PublishUnregister(i, p, removed)
    \/ \E i \in Inst, p \in PostIds, registered \in BOOLEAN : PublishRegister(i, p, registered)
    \/ \E i \in Inst, p \in PostIds : PublishReturn(i, p)
    \/ \E i \in Inst, p \in PostIds, fetched \in BOOLEAN : \E list \in FetchListsOf(p) :
          JobsFire(i, p, fetched, list)
    \/ \E r \in Runners, p \in PostIds : MonitorCheck(r, p)
    \/ \E r \in Runners, p \in PostIds, committed \in BOOLEAN : MonitorMark(r, p, committed)
    \/ \E r \in Runners, p \in PostIds, classified, generated, sent \in BOOLEAN :
          MonitorAttempt(r, p, classified, generated, sent)
    \/ \E r \in Runners, p \in PostIds, result \in CommitResults :
          MonitorPersist(r, p, result)
    \/ \E r \in Runners, p \in PostIds, result \in CommitResults :
          MonitorAudit(r, p, result)

SpecJobs == InitJobs /\ [][NextJobs]_vars

\* What keeps running in the job threads: the BackgroundScheduler thread of
\* every running instance wakes up for the due jobs of every post and submits
\* them, its interval jobs fire, and the executor's threads run the handlers
\* and the passes to their end.
JobsFairness ==
    /\ \A p \in PostIds : WF_vars(\E i \in Inst : TimerLoad(i, p))
    /\ \A p \in PostIds : WF_vars(\E i \in Inst, late \in BOOLEAN : TimerSubmit(i, p, late))
    /\ \A p \in PostIds :
          WF_vars(\E i \in Inst, fetched \in BOOLEAN : \E list \in FetchListsOf(p) :
                     JobsFire(i, p, fetched, list))
    /\ WF_vars(\E i \in Inst, p \in PostIds, started \in BOOLEAN : PublishStart(i, p, started))
    /\ WF_vars(\E i \in Inst, p \in PostIds : PublishRead(i, p))
    /\ WF_vars(\E i \in Inst, p \in PostIds, result \in AdapterResults :
                  PublishCall(i, p, result))
    /\ WF_vars(\E i \in Inst, p \in PostIds, result \in CommitResults :
                  PublishCommit(i, p, result))
    /\ WF_vars(\E i \in Inst, p \in PostIds, removed \in BOOLEAN :
                  PublishUnregister(i, p, removed))
    /\ WF_vars(\E i \in Inst, p \in PostIds, registered \in BOOLEAN :
                  PublishRegister(i, p, registered))
    /\ WF_vars(\E i \in Inst, p \in PostIds : PublishReturn(i, p))
    /\ WF_vars(\E r \in Runners, p \in PostIds : MonitorCheck(r, p))
    /\ WF_vars(\E r \in Runners, p \in PostIds, committed \in BOOLEAN :
                  MonitorMark(r, p, committed))
    /\ WF_vars(\E r \in Runners, p \in PostIds, classified, generated, sent \in BOOLEAN :
                  MonitorAttempt(r, p, classified, generated, sent))
    /\ WF_vars(\E r \in Runners, p \in PostIds, result \in CommitResults :
                  MonitorPersist(r, p, result))
    /\ WF_vars(\E r \in Runners, p \in PostIds, result \in CommitResults :
          MonitorAudit(r, p, result))

SpecJobsLive == InitJobs /\ [][NextJobs]_vars /\ JobsFairness

\* ---------------------------------------------------------------- event resolver
\* AICommunicationAgent.find_matching_event and _fuzzy_event_match.  A text is
\* the sequence of its words (the string is the words joined by one space);
\* no word of the vocabulary is part of another, so that the substring tests
\* of the code are tests on whole words.  A date is a day number, a
\* confidence is in hundredths.

\* datetime.now().date() of the calls
CurrentDate == 0

\* event dates: two older than a month, yesterday, today, tomorrow
EventDates == {CurrentDate - 50, CurrentDate - 40, CurrentDate - 1, CurrentDate,
               CurrentDate + 1}

EventIds == 1..MaxEvents         \* EventID "EVT00<n>"

Titles == {<<>>, <<"Webinar">>, <<"launch">>, <<"ai">>}

Descriptions == {<<>>, <<"launch", "today">>}

Queries == {<<"Today">>, <<"today", "webinar">>, <<"launch">>, <<"ai">>,
            <<"tomorrow">>, <<"this", "week">>}

Events == [EventID : EventIds, Title : Titles, Description : Descriptions,
           Date : EventDates]

\* the answers of the AI pre-pass: _call_ai raises, the text names no event
\* ID, or it names the ID of number id
AiAnswers == {[kind |-> "raise", id |-> 0], [kind |-> "none", id |-> 0]}
             \cup {[kind |-> "id", id |-> n] : n \in 1..(MaxEvents + 1)}

EventIdsOf(list) == {list[k].EventID : k \in 1..Len(list)}

\* the lists of candidate events a caller hands to find_matching_event: rows
\* of EventDetails, EventID being the key, in any order (schedule_post lists
\* them by descending Date, the resolver itself takes the list as it comes)
CandidateLists ==
    {l \in SeqsUpTo(Events, MaxEvents) : Cardinality(EventIdsOf(l)) = Len(l)}

\* the lists of the candidates of list, in every order
AllEvents(list) ==
    {[k \in 1..Len(list) |-> list[f[k]]] : f \in Permutations(1..Len(list))}

Lower(text) == [k \in 1..Len(text) |-> lower(text[k])]

\* a in b of two strings
Contains(a, b) ==
    \E k \in 0..(Len(b) - Len(a)) : SubSeq(b, k + 1, k + Len(a)) = a

\* word in text, for a single word
WordIn(word, text) == \E k \in 1..Len(text) : text[k] = word

\* mutant of DateRelevance: the date of the event earns nothing
DateRelevanceNone(event, user_lower) == 0

\* date relevance: the query mentions today, tomorrow or this week
DateRelevance(event, user_lower) ==
    IF WordIn("today", user_lower) /\ event.Date = CurrentDate THEN 50
    ELSE IF WordIn("tomorrow", user_lower) /\ event.Date = CurrentDate + 1 THEN 50
    ELSE IF Contains(<<"this", "week">>, user_lower) /\ event.Date - CurrentDate <= 7
    THEN 30
    ELSE 0

\* the score _fuzzy_event_match gives one event
Score(event, user_prompt) ==
    LET user_lower == Lower(user_prompt)
        title == Lower(event.Title)
        description == Lower(event.Description)
        exact == IF Contains(title, user_lower) \/ Contains(user_lower, title)
                 THEN 100 ELSE 0
        words == 20 * Cardinality({k \in 1..Len(title) :
                                     Len(title[k]) > 3 /\ WordIn(title[k], user_lower)})
        described == IF description # <<>>
                        /\ \E k \in 1..Len(user_lower) :
                              Len(user_lower[k]) > 3 /\ WordIn(user_lower[k], description)
                     THEN 10 ELSE 0
        relevance == DateRelevance(event, user_lower)
        recency == IF CurrentDate - event.Date <= 30 THEN 5 ELSE 0
    IN exact + words + described + relevance + recency

NoEvent == [EventID |-> 0, Title |-> <<>>, Description |-> <<>>, Date |-> 0]

\* {"success": False, "error": ...}
NotFound == [success |-> FALSE, event |-> NoEvent, confidence |-> 0, reasoning |-> "error"]

Found(event, confidence, reasoning) ==
    [success |-> TRUE, event |-> event, confidence |-> confidence, reasoning |-> reasoning]

\* the first position of a maximum in a list of keys: the element a stable
\* sort in descending order puts first, and the one max() returns
FirstMax(keys) ==
    CHOOSE k \in 1..Len(keys) :
        /\ \A m \in 1..Len(keys) : keys[m] <= keys[k]
        /\ \A m \in 1..(k - 1) : keys[m] < keys[k]

\* mutant of get_event_date: the earlier date counts as the later
get_event_date_negated(event) == 0 - event.Date

get_event_date(event) == event.Date

_fuzzy_event_match(user_prompt, available_events) ==
    LET scores == [k \in 1..Len(available_events) |->
                      Score(available_events[k], user_prompt)]
        dates == [k \in 1..Len(available_events) |-> get_event_date(available_events[k])]
        best_event == available_events[FirstMax(scores)]
        best_score == scores[FirstMax(scores)]
    IN IF best_score > 0
       THEN Found(best_event, Min(80, best_score), "fuzzy")
       ELSE Found(available_events[FirstMax(dates)], 30, "fallback")

\* find_matching_event with the answer ai of the AI pre-pass
find_matching_event(user_prompt, available_events, ai) ==
    IF available_events = <<>> THEN NotFound
    ELSE IF ai.kind = "raise" THEN NotFound
    ELSE IF ai.kind = "id" /\ ai.id \in EventIdsOf(available_events)
    THEN Found(available_events[CHOOSE k \in 1..Len(available_events) :
                                   available_events[k].EventID = ai.id], 90, "ai")
    ELSE _fuzzy_event_match(user_prompt, available_events)

\* one call of find_matching_event on the query and a list of the candidates,
\* ai being the answer of its AI pre-pass
Resolve(ai, available_events) ==
    /\ Len(resolution.results) < MaxCalls
    /\ resolution' = [resolution EXCEPT !.results =
           Append(@, find_matching_event(resolution.query, available_events, ai))]
    /\ UNCHANGED <<posts, publishJobs, monitorJobs, instances, dueJobs, publishRun,
                   request, auditLog, adapterCalls, cleanCancel>>
    /\ UNCHANGED commentVars
    /\ UNCHANGED timeVars

InitResolve ==
    /\ posts = [p \in PostIds |-> NoPost]
    /\ publishJobs = [p \in PostIds |-> NoTime]
    /\ monitorJobs = {}
    /\ instances = 1
    /\ dueJobs = [i \in Inst |-> {}]
    /\ publishRun = [i \in Inst |-> [p \in PostIds |-> IdleRun]]
    /\ request = Idle
    /\ comments = [c \in CommentIds |-> NoRow]
    /\ monitorRun = [r \in Runners |-> [p \in PostIds |-> IdlePass]]
    /\ auditLog = [posts |-> [p \in PostIds |-> 0],
                   comments |-> [c \in CommentIds |-> [success |-> 0, failed |-> 0]]]
    /\ adapterCalls = [p \in PostIds |-> 0]
    /\ cleanCancel = [p \in PostIds |-> FALSE]
    /\ passes = 0
    /\ attempts = [c \in CommentIds |-> 0]
    /\ replies = [c \in CommentIds |-> 0]
    /\ \E query \in Queries, candidates \in CandidateLists :
          resolution = [query |-> query, candidates |-> candidates, results |-> <<>>]
    /\ timing = NoTiming

NextResolve ==
    \E ai \in AiAnswers, available_events \in AllEvents(resolution.candidates) :
        Resolve(ai, available_events)

SpecResolve == InitResolve /\ [][NextResolve]_vars

\* ---------------------------------------------------------------- timestamps
\* A datetime is the minutes of its wall clock since midnight of day 0 and its
\* zone: "naive" (tzinfo None), "UTC" or "IST" (Asia/Kolkata, UTC+05:30, no
\* daylight saving time).
MinutesPerDay == 1440

IstOffset == 330

Zones == {"naive", "UTC", "IST"}

Offset(zone) == IF zone = "IST" THEN IstOffset ELSE 0

Naive(minutes) == [minutes |-> minutes, zone |-> "naive"]

\* tz.localize(dt) of pytz: the wall clock of a naive datetime, labelled
localize(zone, dt) == [minutes |-> dt.minutes, zone |-> zone]

\* dt.astimezone(tz) of an aware datetime: the same instant on the wall clock of tz
astimezone(dt, zone) == [minutes |-> dt.minutes - Offset(dt.zone) + Offset(zone), zone |-> zone]

\* dt.date() and dt.time() as day number and minute of the day
date(dt) == dt.minutes \div MinutesPerDay

time(dt) == dt.minutes % MinutesPerDay

\* dt.replace(year, month, day) with the date of today
replace(dt, today) == [dt EXCEPT !.minutes = date(today) * MinutesPerDay + time(dt)]

\* datetime.now() of the server at the request
Nows == {Naive(MinutesPerDay + 600), Naive(MinutesPerDay + 1439)}

\* the date and time in the AI's answer, as minutes
AiDateTimes == {675, MinutesPerDay + 120, MinutesPerDay + 329, MinutesPerDay + 675,
                2 * MinutesPerDay, 2 * MinutesPerDay + 675}

\* the inputs of parse_schedule_request: an immediate keyword in the text, a
\* word for today in it, the AI's answer (dated: it holds a date and time),
\* the server's clock
ScheduleRequests ==
    [immediate : BOOLEAN, today : BOOLEAN, dated : BOOLEAN, ai : AiDateTimes, now : Nows]

\* new_time of an edit request after datetime.fromisoformat: without a zone,
\* with Z or +00:00, with +05:30
NewTimes == {[minutes |-> m, zone |-> z] :
                m \in {MinutesPerDay + 675, 2 * MinutesPerDay + 1200}, z \in Zones}

\* AICommunicationAgent.parse_schedule_request: the datetime it returns (UTC)
\* and the IST wall clock it was converted from
parse_schedule_request(input) ==
    IF input.immediate
    THEN LET immediate_time == Naive(input.now.minutes + 2)
             immediate_time_ist == localize("IST", immediate_time)
         IN [success |-> TRUE, datetime |-> astimezone(immediate_time_ist, "UTC"),
             ist |-> immediate_time_ist]
    ELSE IF ~input.dated
    THEN [success |-> FALSE, datetime |-> <<>>, ist |-> <<>>]
    ELSE LET parsed == Naive(input.ai)
             forced == IF input.today THEN replace(parsed, input.now) ELSE parsed
             adjusted == IF date(forced) < date(input.now) THEN replace(forced, input.now)
                         ELSE forced
             parsed_datetime_ist == localize("IST", adjusted)
         IN [success |-> TRUE, datetime |-> astimezone(parsed_datetime_ist, "UTC"),
             ist |-> parsed_datetime_ist]

\* schedule_post, the call of the date resolver
TimeResolve ==
    /\ timing.pc = "request"
    /\ LET schedule_result == parse_schedule_request(timing.input) IN
       timing' = IF schedule_result.success
                 THEN [timing EXCEPT !.pc = "resolved", !.ist = schedule_result.ist,
                                     !.datetime = schedule_result.datetime,
                                     !.naiveAs = @ \cup {"IST"}]
                 ELSE [timing EXCEPT !.pc = "failed"]
    /\ UNCHANGED <<posts, publishJobs, monitorJobs, instances, dueJobs, publishRun,
                   request, auditLog, adapterCalls, cleanCancel>>
    /\ UNCHANGED commentVars
    /\ UNCHANGED resolverVars

\* a datetime without a zone is taken as UTC, the result is moved to IST
ToIst(dt) == astimezone(IF dt.zone = "naive" THEN localize("UTC", dt) ELSE dt, "IST")

\* the zones a conversion by ToIst assumed for a datetime without one
AssumedBy(dt) == IF dt.zone = "naive" THEN {"UTC"} ELSE {}

\* schedule_post: scheduled_time to scheduled_time_ist
TimeConvert ==
    /\ timing.pc = "resolved"
    /\ timing' = [timing EXCEPT !.pc = "converted",
                                !.scheduled_time_ist = ToIst(timing.datetime),
                                !.naiveAs = @ \cup AssumedBy(timing.datetime)]
    /\ UNCHANGED <<posts, publishJobs, monitorJobs, instances, dueJobs, publishRun,
                   request, auditLog, adapterCalls, cleanCancel>>
    /\ UNCHANGED commentVars
    /\ UNCHANGED resolverVars

\* schedule_post: the guard before the row is built, which relabels a
\* datetime that is not in IST
EnsureIst(dt) == IF dt.zone # "IST" THEN localize("IST", Naive(dt.minutes)) ELSE dt

\* schedule_post: PostDate and PostTime of the row, in the commit of the row
\* and its audit entry.  A commit that raises is rolled back: no row, and
\* add_job is not reached.
TimeStore(saved) ==
    /\ timing.pc = "converted"
    /\ LET scheduled_time_ist == EnsureIst(timing.scheduled_time_ist) IN
       timing' = IF saved
                 THEN [timing EXCEPT !.pc = "stored",
                                     !.scheduled_time_ist = scheduled_time_ist,
                                     !.PostDate = date(scheduled_time_ist),
                                     !.PostTime = time(scheduled_time_ist)]
                 ELSE [timing EXCEPT !.pc = "failed",
                                     !.scheduled_time_ist = scheduled_time_ist]
    /\ UNCHANGED <<posts, publishJobs, monitorJobs, instances, dueJobs, publishRun,
                   request, auditLog, adapterCalls, cleanCancel>>
    /\ UNCHANGED commentVars
    /\ UNCHANGED resolverVars

\* schedule_post: add_job with DateTrigger(run_date=scheduled_time_ist).  When
\* add_job raises the row stays without a job.
TimeAddJob(added) ==
    /\ timing.pc = "stored"
    /\ timing' = [timing EXCEPT !.pc = "scheduled",
                                !.run_date = IF added THEN timing.scheduled_time_ist ELSE @]
    /\ UNCHANGED <<posts, publishJobs, monitorJobs, instances, dueJobs, publishRun,
                   request, auditLog, adapterCalls, cleanCancel>>
    /\ UNCHANGED commentVars
    /\ UNCHANGED resolverVars

\* the edit endpoint and edit_scheduled_post with a new time: the conversion
\* to IST and reschedule_job with DateTrigger(run_date=new_time_ist).
\* reschedule_job raises for a post without a job, or as the store fails
\* (rescheduled); the except branch rolls back and the row stays as it was.
TimeEdit(new_time, rescheduled) ==
    /\ timing.pc = "scheduled"
    /\ timing.edits < MaxEdits
    /\ LET new_time_ist == ToIst(new_time) IN
       timing' = IF rescheduled /\ timing.run_date # <<>>
                 THEN [timing EXCEPT !.pc = "editing",
                                     !.input = new_time,
                                     !.new_time_ist = new_time_ist,
                                     !.run_date = new_time_ist,
                                     !.naiveAs = @ \cup AssumedBy(new_time),
                                     !.edits = @ + 1]
                 ELSE [timing EXCEPT !.input = new_time, !.edits = @ + 1]
    /\ UNCHANGED <<posts, publishJobs, monitorJobs, instances, dueJobs, publishRun,
                   request, auditLog, adapterCalls, cleanCancel>>
    /\ UNCHANGED commentVars
    /\ UNCHANGED resolverVars

\* db.commit() of the edit: PostDate and PostTime of the row.  A commit that
\* raises is rolled back; the job stays rescheduled.
TimeEditCommit(committed) ==
    /\ timing.pc = "editing"
    /\ timing' = IF committed
                 THEN [timing EXCEPT !.pc = "scheduled",
                                     !.PostDate = date(timing.new_time_ist),
                                     !.PostTime = time(timing.new_time_ist),
                                     !.new_time_ist = <<>>]
                 ELSE [timing EXCEPT !.pc = "scheduled", !.new_time_ist = <<>>]
    /\ UNCHANGED <<posts, publishJobs, monitorJobs, instances, dueJobs, publishRun,
                   request, auditLog, adapterCalls, cleanCancel>>
    /\ UNCHANGED commentVars
    /\ UNCHANGED resolverVars

InitTime ==
    /\ posts = [p \in PostIds |-> NoPost]
    /\ publishJobs = [p \in PostIds |-> NoTime]
    /\ monitorJobs = {}
    /\ instances = 1
    /\ dueJobs = [i \in Inst |-> {}]
    /\ publishRun = [i \in Inst |-> [p \in PostIds |-> IdleRun]]
    /\ request = Idle
    /\ comments = [c \in CommentIds |-> NoRow]
    /\ monitorRun = [r \in Runners |-> [p \in PostIds |-> IdlePass]]
    /\ auditLog = [posts |-> [p \in PostIds |-> 0],
                   comments |-> [c \in CommentIds |-> [success |-> 0, failed |-> 0]]]
    /\ adapterCalls = [p \in PostIds |-> 0]
    /\ cleanCancel = [p \in PostIds |-> FALSE]
    /\ passes = 0
    /\ attempts = [c \in CommentIds |-> 0]
    /\ replies = [c \in CommentIds |-> 0]
    /\ resolution = NoResolution
    /\ \E input \in ScheduleRequests : timing = [NoTiming EXCEPT !.pc = "request", !.input = input]

NextTime ==
    \/ TimeResolve
    \/ TimeConvert
    \/ \E saved \in BOOLEAN : TimeStore(saved)
    \/ \E added \in BOOLEAN : TimeAddJob(added)
    \/ \E new_time \in NewTimes, rescheduled \in BOOLEAN : TimeEdit(new_time, rescheduled)
    \/ \E committed \in BOOLEAN : TimeEditCommit(committed)

SpecTime == InitTime /\ [][NextTime]_vars

\* ================================================================ claims
Terminal == {"Published", "Failed", "Cancelled"}

PublishInFlight(p) == {i \in Inst : publishRun[i][p].pc # "idle"}

\* C1: in every reachable state every post has Status Published exactly when
\* its PlatformPostID is set.
C1_PublishedIffPlatformPostID ==
    \A p \in PostIds :
        Exists(p) => (posts[p].Status = "Published" <=> posts[p].PlatformPostID # NoId)

\* C2: across poll passes RetryCount never decreases, and a comment that is
\* Responded or Escalated keeps its ResponseStatus and RetryCount for good.
C2_RetryMonotoneTerminalFrozen ==
    [][\A c \in CommentIds :
          /\ comments'[c].RetryCount >= comments[c].RetryCount
          /\ comments[c].Status \in {"Responded", "Escalated"} => comments'[c] = comments[c]
      ]_vars

\* C3: the publish handler run on a post that is Published or Cancelled is a
\* no-op: no adapter call, and Status, PlatformPostID, content and the
\* registered timers stay as they are, on every firing.
C3_PublishNoOp ==
    [][\A i \in Inst, p \in PostIds :
          /\ (/\ publishRun[i][p].pc = "read"
              /\ publishRun'[i][p].pc # "read"
              /\ posts[p].Status \in {"Published", "Cancelled"})
             => /\ publishRun'[i][p].pc = "noop"
                /\ adapterCalls' = adapterCalls
                /\ posts' = posts
                /\ publishJobs' = publishJobs
                /\ monitorJobs' = monitorJobs
          /\ publishRun[i][p].pc = "noop" => publishRun'[i][p].pc \in {"noop", "idle"}
      ]_vars

\* C3 witness: a handler has returned without publishing on a Published post
C3_Witness ==
    \E i \in Inst, p \in PostIds :
        publishRun[i][p].pc = "noop" /\ posts[p].Status = "Published"

\* C4: a comment whose every response attempt fails is attempted in at most
\* RetryCap poll passes and its RetryCount never exceeds RetryCap.
C4_AtMostThreeAttempts ==
    \A c \in CommentIds :
        replies[c] = 0 => attempts[c] <= RetryCap /\ comments[c].RetryCount <= RetryCap

\* C5: for every post at most one publish handler execution and at most one
\* comment-poll pass is in progress, over all scheduler instances and the
\* manually triggered passes.
C5_SingleFlight ==
    \A p \in PostIds :
        Cardinality(PublishInFlight(p)) <= 1 /\ Cardinality(PassesInFlight(p)) <= 1

\* C6: the adapter's publish is invoked at most once per post.
C6_PublishAtMostOnce == \A p \in PostIds : adapterCalls[p] <= 1

\* C7: after cancel succeeded on a post whose timer had not fired, the timer is
\* gone, the adapter is never called for the post and the post stays Cancelled;
\* cancel on a post that is not Scheduled returns an error and changes nothing.
C7_CancelBeforeFire ==
    [][/\ \A p \in PostIds :
             cleanCancel'[p] => /\ posts'[p].Status = "Cancelled"
                                /\ publishJobs'[p] = NoTime
                                /\ \A i \in Inst : p \notin dueJobs'[i]
                                /\ adapterCalls'[p] = 0
       /\ (/\ request.pc = "idle"
           /\ request'.op = "cancel"
           /\ posts[request'.post].Status # "Scheduled")
          => /\ request' = Return("cancel", request'.post, FALSE)
             /\ UNCHANGED <<posts, publishJobs, monitorJobs, dueJobs, publishRun>>
      ]_vars

\* C8: no post is Cancelled and at the same time carries a PlatformPostID or a
\* registered comment-monitor timer.
C8_CancelledExcludesPublished ==
    \A p \in PostIds :
        posts[p].Status = "Cancelled" => posts[p].PlatformPostID = NoId /\ p \notin monitorJobs

\* C9: edit never changes Status, and the content and scheduled time of a
\* post that has left Scheduled never change, also when the post leaves
\* Scheduled while the edit is in progress.
C9_EditOnlyWhileScheduled ==
    [][\A p \in PostIds :
          /\ (request.op = "edit" /\ request.post = p /\ request' # request)
             => posts'[p].Status = posts[p].Status
          /\ posts[p].Status \in Terminal
             => /\ posts'[p].Content = posts[p].Content
                /\ posts'[p].Time = posts[p].Time
      ]_vars

\* C10: whenever no request is in mid-operation, the publish timer registered
\* for a Scheduled post fires at the post's stored ScheduledTime.
C10_TimerAtScheduledTime ==
    \A p \in PostIds :
        (/\ request.pc \in {"idle", "ret"}
         /\ posts[p].Status = "Scheduled"
         /\ publishJobs[p] # NoTime)
        => publishJobs[p] = posts[p].Time

\* C11: a publish handler run on a Scheduled post ends, when the adapter's
\* publish succeeded, with the post Published, the adapter's PlatformPostID
\* stored and the comment-monitor timer registered; when the adapter returned
\* an error, with the post Failed, PlatformPostID null and no monitor timer.
C11_PublishOutcome ==
    [][\A i \in Inst, p \in PostIds :
          /\ (/\ publishRun[i][p].pc = "success"
              /\ publishRun'[i][p].pc # "success"
              /\ posts[p].Status = "Scheduled")
             => /\ posts'[p].Status = "Published"
                /\ posts'[p].PlatformPostID = publishRun[i][p].id
          /\ (/\ publishRun[i][p].pc = "add_job"
              /\ publishRun'[i][p].pc # "add_job"
              /\ posts[p].Status = "Published")
             => p \in monitorJobs'
          /\ (/\ publishRun[i][p].pc = "failure"
              /\ publishRun'[i][p].pc # "failure"
              /\ posts[p].Status = "Scheduled")
             => /\ posts'[p].Status = "Failed"
                /\ posts'[p].PlatformPostID = NoId
                /\ p \notin monitorJobs'
      ]_vars

\* C12: every post that is Scheduled with its publish timer registered and is
\* not cancelled eventually has its publish handler invoked, also when the
\* target time was missed.
C12_ScheduledEventuallyInvoked ==
    \A p \in PostIds :
        (posts[p].Status = "Scheduled" /\ publishJobs[p] # NoTime)
        ~> (posts[p].Status = "Cancelled" \/ \E i \in Inst : publishRun[i][p].pc = "read")

\* control points of _publish_scheduled_post and of _monitor_comments
HandlerPcs == {"idle", "start", "read", "noop", "calling", "success", "failure",
               "register", "add_job", "done"}

PassPcs == {"idle", "check", "mark", "attempt", "persist", "audit"}

\* C13: whatever error the adapter, the classifier, the response generator or
\* the store produces in a step of a job (publish_scheduled_post with its
\* handler, or a comment-poll pass), the job stays at a control point of its
\* handler until the handler returns, no exception leaving it, and the step
\* leaves every other job as it was: the publish timers in the store and those
\* loaded as due, the monitor timers of the other posts, the runs of the other
\* posts and instances and the running schedulers.  The timers that remain
\* still fire: a publish timer in the store is eventually submitted, and the
\* monitor timer of a post eventually starts a pass of that post, as long as
\* passes are left to start.
C13_ErrorsStayInJob ==
    /\ [][/\ \A i \in Inst, p \in PostIds :
                (publishRun[i][p].pc # "idle" /\ publishRun'[i][p] # publishRun[i][p])
                => /\ publishRun'[i][p].pc \in HandlerPcs
                   /\ \A j \in Inst, q \in PostIds :
                         (j # i \/ q # p) => publishRun'[j][q] = publishRun[j][q]
                   /\ publishJobs' = publishJobs
                   /\ dueJobs' = dueJobs
                   /\ \A q \in PostIds \ {p} : q \in monitorJobs' <=> q \in monitorJobs
                   /\ monitorRun' = monitorRun
                   /\ instances' >= instances
          /\ \A r \in Runners, p \in PostIds :
                (monitorRun[r][p].pc # "idle" /\ monitorRun'[r][p] # monitorRun[r][p])
                => /\ monitorRun'[r][p].pc \in PassPcs
                   /\ \A t \in Runners, q \in PostIds :
                         (t # r \/ q # p) => monitorRun'[t][q] = monitorRun[t][q]
                   /\ publishRun' = publishRun
                   /\ publishJobs' = publishJobs
                   /\ dueJobs' = dueJobs
                   /\ monitorJobs' = monitorJobs
                   /\ instances' = instances
         ]_vars
    /\ \A q \in PostIds : publishJobs[q] # NoTime ~> publishJobs[q] = NoTime
    /\ \A q \in PostIds :
          (q \in monitorJobs /\ passes < MaxJobPasses)
          ~> (passes = MaxJobPasses \/ \E i \in Inst : InFlight(i, q))

\* C14: a schedule whose date/time resolution or event resolution fails ends
\* at once with a failure for the caller, without a second attempt, and no
\* step of it persists a post row, writes an audit entry or registers a timer.
C14_ResolutionFailureNoState ==
    [][/\ (request.pc = "idle" /\ request'.op = "schedule"
                               /\ request'.error \in ResolutionErrors)
          => /\ request'.pc = "ret" /\ ~request'.ok
             /\ UNCHANGED <<posts, auditLog, publishJobs, monitorJobs>>
       /\ (request.op = "schedule" /\ request.error \in ResolutionErrors
                                   /\ request' # request)
          => /\ request' = Idle
             /\ UNCHANGED <<posts, auditLog, publishJobs, monitorJobs>>
      ]_vars

\* C14 witness: schedule has failed on event resolution for a request that
\* names an available platform while no post exists
C14_Witness ==
    /\ request = ScheduleFailure("event", 1, <<"twitter">>)
    /\ \A p \in PostIds : ~Exists(p) /\ publishJobs[p] = NoTime /\ auditLog.posts[p] = 0

\* C15: when the commit of a comment update raises, nothing of the update
\* stays behind: the comment row is as the pass found it before it began
\* the update, in particular its RetryCount (stated for a pass that is the
\* only one in flight for the post).
C15_FailedCommitNoPartialState ==
    [][\A r \in Runners, p \in PostIds :
          (/\ monitorRun[r][p].pc = "persist"
           /\ monitorRun[r][p].existing
           /\ PassesInFlight(p) = {r}
           /\ monitorRun'[r][p] # monitorRun[r][p]
           /\ comments' = comments)
          => comments'[Head(monitorRun[r][p].todo).comment_id].RetryCount
                = monitorRun[r][p].retry_count
      ]_vars

\* C16: every failure is recorded in the audit log: the step in which a
\* publish ends Failed appends an audit entry for the post, the step in which
\* a comment is escalated appends one for the comment, and so does the last
\* step of a pass on a comment whose response it saved as Failed.
C16_FailuresAudited ==
    [][/\ \A p \in PostIds :
             (posts[p].Status # "Failed" /\ posts'[p].Status = "Failed")
             => auditLog'.posts[p] = auditLog.posts[p] + 1
       /\ \A c \in CommentIds :
             (comments[c].Status # "Escalated" /\ comments'[c].Status = "Escalated")
             => auditLog'.comments[c].failed = auditLog.comments[c].failed + 1
       /\ \A r \in Runners, p \in PostIds :
             (/\ monitorRun[r][p].pc = "audit"
              /\ monitorRun[r][p].status = "Failed"
              /\ monitorRun'[r][p] # monitorRun[r][p])
             => LET c == Head(monitorRun[r][p].todo).comment_id IN
                auditLog'.comments[c].failed = auditLog.comments[c].failed + 1
      ]_vars

\* C17: every resolution returns an event when the candidate list is not
\* empty and reports failure only when it is empty, whatever the AI pre-pass
\* answers and also when it raises.
C17_FoundIffCandidates ==
    \A k \in 1..Len(resolution.results) :
        resolution.results[k].success <=> resolution.candidates # <<>>

\* C18: when fuzzy matching returns an event and other candidates have the
\* same, highest score, none of them has a later date than the returned one,
\* in whatever order the candidates are listed.
C18_TiesToMostRecent ==
    \A k \in 1..Len(resolution.results) :
        resolution.results[k].reasoning = "fuzzy"
        => \A m \in 1..Len(resolution.candidates) :
              Score(resolution.candidates[m], resolution.query)
                 = Score(resolution.results[k].event, resolution.query)
              => resolution.candidates[m].Date <= resolution.results[k].event.Date

\* C19: two calls of the resolver with the same query and the same candidate
\* set return the same event with the same confidence, and a call changes
\* neither the candidates nor any stored state.
C19_ResolveDeterministicPure ==
    [][resolution' # resolution
       => /\ resolution'.candidates = resolution.candidates
          /\ resolution'.query = resolution.query
          /\ UNCHANGED <<posts, publishJobs, monitorJobs, comments, auditLog>>
          /\ \A k, m \in 1..Len(resolution'.results) :
                /\ resolution'.results[k].event = resolution'.results[m].event
                /\ resolution'.results[k].confidence = resolution'.results[m].confidence
      ]_vars

\* the title of the event and the query overlap: one is part of the other, or
\* they share a word
TitleOverlaps(event, user_prompt) ==
    \/ Contains(Lower(event.Title), Lower(user_prompt))
    \/ Contains(Lower(user_prompt), Lower(event.Title))
    \/ \E k \in 1..Len(event.Title) : WordIn(lower(event.Title[k]), Lower(user_prompt))

\* the query mentions today, and the candidates are a, dated today, and b,
\* dated yesterday, neither with a title that overlaps the query
TodayAndYesterday(a, b) ==
    /\ WordIn("today", Lower(resolution.query))
    /\ EventIdsOf(resolution.candidates) = {a.EventID, b.EventID}
    /\ a.EventID # b.EventID
    /\ a.Date = CurrentDate
    /\ b.Date = CurrentDate - 1
    /\ ~TitleOverlaps(a, resolution.query)
    /\ ~TitleOverlaps(b, resolution.query)

\* C20: the query mentions today, one candidate is dated today, the other
\* yesterday, and neither title overlaps the query: fuzzy resolution returns
\* the candidate dated today, whose score, date-relevance term and
\* confidence are higher than the other's.
C20_TodayBeatsYesterday ==
    \A k \in 1..Len(resolution.results), m, n \in 1..Len(resolution.candidates) :
        LET a == resolution.candidates[m]
            b == resolution.candidates[n]
            user_lower == Lower(resolution.query)
        IN (TodayAndYesterday(a, b) /\ resolution.results[k].reasoning # "ai"
                                    /\ resolution.results[k].success)
           => /\ resolution.results[k] = Found(a, Min(80, Score(a, resolution.query)), "fuzzy")
              /\ Score(a, resolution.query) > Score(b, resolution.query)
              /\ DateRelevance(a, user_lower) > DateRelevance(b, user_lower)
              /\ resolution.results[k].confidence > Min(80, Score(b, resolution.query))

\* C20 witness: fuzzy resolution has answered such a query, the candidate
\* dated yesterday being the only one whose description contains a word of
\* the query
C20_Witness ==
    /\ Len(resolution.results) >= 1
    /\ Len(resolution.candidates) = 2
    /\ TodayAndYesterday(resolution.candidates[1], resolution.candidates[2])
    /\ resolution.candidates[2].Description # <<>>
    /\ resolution.candidates[1].Description = <<>>
    /\ resolution.results[1].reasoning = "fuzzy"

\* C21: the IST wall clock the date resolver produced is the PostDate and
\* PostTime stored for the post and the run date of its timer, the conversion
\* to UTC and back to IST giving the same datetime; and no datetime without a
\* zone is taken as UTC on its way to the row or the timer, in schedule or
\* in a later edit of the time.
C21_IstWallClockKept ==
    /\ timing.pc \in {"converted", "stored", "scheduled"} /\ timing.edits = 0
       => timing.scheduled_time_ist = timing.ist
    /\ timing.pc \in {"stored", "scheduled"} /\ timing.edits = 0
       => /\ timing.PostDate = date(timing.ist)
          /\ timing.PostTime = time(timing.ist)
    /\ timing.pc = "scheduled" /\ timing.edits = 0 /\ timing.run_date # <<>>
       => timing.run_date = timing.ist
    /\ "UTC" \notin timing.naiveAs

\* C22: schedule_post creates a post row only for a platform that was
\* requested and is available, and a timer only for such a row; the platforms
\* linkedin and twitter get no post and no timer, whatever list is requested.
C22_OnlyAvailablePlatforms ==
    [][\A p \in PostIds :
          /\ (~Exists(p) /\ posts'[p].Status # "None")
             => /\ posts'[p].Platform = Head(request.todo)
                /\ posts'[p].Platform \in get_available_platforms
                /\ posts'[p].Platform \notin {"linkedin", "twitter"}
          /\ (publishJobs[p] = NoTime /\ publishJobs'[p] # NoTime)
             => /\ Exists(p)
                /\ posts[p].Platform \notin {"linkedin", "twitter"}
      ]_vars

\* C23: the response status of an attempt is Responded exactly when the
\* classification succeeded and a reply was generated and sent, and Failed
\* otherwise; the row of the comment then carries that status, and a Failed
\* row is attempted again by the next pass that finds it below the retry cap.
C23_RespondedIffAllSucceeded ==
    [][\A r \in Runners, p \in PostIds :
          LET c == Head(monitorRun[r][p].todo).comment_id IN
          /\ (monitorRun[r][p].pc = "attempt" /\ monitorRun'[r][p].pc = "persist")
             => /\ monitorRun'[r][p].status = "Responded"
                   <=> (monitorRun'[r][p].classified /\ replies'[c] = replies[c] + 1)
                /\ monitorRun'[r][p].status \in {"Responded", "Failed"}
          /\ (monitorRun[r][p].pc = "persist" /\ comments'[c] # comments[c])
             => comments'[c].Status = monitorRun[r][p].status
      ]_vars

\* C24: over all poll passes, run one after the other, every comment gets at
\* most one reply that the adapter sent successfully, also when the commit of
\* the Responded status raised after the reply was sent.
C24_AtMostOneReply == \A c \in CommentIds : replies[c] <= 1

\* C25: the pass that attempted a response on a comment persists the row of
\* the comment with the status of the attempt (inserted if the pass found
\* none, otherwise updated) and then appends exactly one audit entry for the
\* comment, which records success exactly when the reply was sent.
C25_AttemptPersistedAndAudited ==
    [][\A r \in Runners, p \in PostIds :
          LET pass == monitorRun[r][p]
              c == Head(pass.todo).comment_id
              sent == pass.status = "Responded"
          IN
          /\ (pass.pc = "persist" /\ monitorRun'[r][p] # pass)
             => /\ comments'[c] = IF pass.existing
                                  THEN UpdatedRow(comments[c], pass.status, pass.retry_count)
                                  ELSE InsertedRow(pass.status)
                /\ monitorRun'[r][p].pc = "audit"
          /\ (pass.pc = "audit" /\ monitorRun'[r][p] # pass)
             => /\ auditLog'.comments[c].success + auditLog'.comments[c].failed
                      = auditLog.comments[c].success + auditLog.comments[c].failed + 1
                /\ auditLog'.comments[c].success = auditLog.comments[c].success + 1 <=> sent
      ]_vars

\* C26: a comment-monitor timer is in the store only for a post whose Status
\* is Published (the store holds at most one per post, its id being the key),
\* and a registered timer leaves the store only by a remove_job call.
C26_MonitorOnlyWhilePublished ==
    [][\A p \in PostIds :
          /\ p \in monitorJobs' => posts'[p].Status = "Published"
          /\ (p \in monitorJobs /\ p \notin monitorJobs')
             => \/ \E i \in Inst : publishRun[i][p].pc = "register"
                \/ posts[p].Platform \in disabled_platforms
      ]_vars

\* C27: with the passes of the post run one after the other and the adapter
\* returning the comment in every one of them, a comment is Responded or
\* Escalated once MaxPasses passes (more than the retry cap allows attempts)
\* have ended: no comment stays in retry.
C27_TerminalWithinBoundedPasses ==
    (passes = MaxPasses /\ \A p \in PostIds : PassesInFlight(p) = {})
    => \A c \in CommentIds : comments[c].Status \in {"Responded", "Escalated"}

\* C28: whenever fuzzy matching ran, the score of every candidate is the sum
\* of the six terms, and a match by score returns a candidate with the
\* highest such sum with confidence min(0.8, sum / 100).  The six terms: 100
\* for title and query one within the other, 20 for every title word longer
\* than 3 that the query has, 10 for a query word longer than 3 in the
\* description, 50 for today or tomorrow with the event on that day, 30 for
\* this week with the event at most 7 days away, 5 for an event of the last
\* 30 days.
C28_ScoreIsReferenceSum ==
    LET ReferenceSum(event, user_prompt) ==
            LET user_lower == Lower(user_prompt)
                title == Lower(event.Title)
                description == Lower(event.Description)
                away == IF event.Date >= CurrentDate THEN event.Date - CurrentDate
                        ELSE CurrentDate - event.Date
                exact == IF Contains(title, user_lower) \/ Contains(user_lower, title)
                         THEN 100 ELSE 0
                words == 20 * Cardinality({k \in 1..Len(title) :
                                    Len(title[k]) > 3 /\ WordIn(title[k], user_lower)})
                described == IF \E k \in 1..Len(user_lower) :
                                   Len(user_lower[k]) > 3
                                   /\ WordIn(user_lower[k], description)
                             THEN 10 ELSE 0
                day == IF \/ WordIn("today", user_lower) /\ event.Date = CurrentDate
                          \/ WordIn("tomorrow", user_lower)
                             /\ event.Date = CurrentDate + 1
                       THEN 50 ELSE 0
                week == IF Contains(<<"this", "week">>, user_lower) /\ away <= 7
                        THEN 30 ELSE 0
                recent == IF event.Date <= CurrentDate /\ CurrentDate - event.Date <= 30
                          THEN 5 ELSE 0
            IN exact + words + described + day + week + recent
    IN
    \A k \in 1..Len(resolution.results) :
        LET result == resolution.results[k] IN
        result.reasoning \in {"fuzzy", "fallback"}
        => /\ \A m \in 1..Len(resolution.candidates) :
                 Score(resolution.candidates[m], resolution.query)
                    = ReferenceSum(resolution.candidates[m], resolution.query)
           /\ result.reasoning = "fuzzy"
              => /\ \A m \in 1..Len(resolution.candidates) :
                       ReferenceSum(resolution.candidates[m], resolution.query)
                          <= ReferenceSum(result.event, resolution.query)
                 /\ result.confidence
                       = Min(80, ReferenceSum(result.event, resolution.query))

\* C29: whenever fuzzy matching ran on a candidate list that is not empty and
\* every candidate scores 0, the call succeeds and returns a candidate with
\* the latest date of all, with confidence 0.3.
C29_FallbackToMostRecent ==
    \A k \in 1..Len(resolution.results) :
        LET result == resolution.results[k] IN
        (/\ result.reasoning \in {"fuzzy", "fallback"}
         /\ \A m \in 1..Len(resolution.candidates) :
               Score(resolution.candidates[m], resolution.query) = 0)
        => /\ result.success
           /\ result.confidence = 30
           /\ \E m \in 1..Len(resolution.candidates) : result.event = resolution.candidates[m]
           /\ \A m \in 1..Len(resolution.candidates) :
                 resolution.candidates[m].Date <= result.event.Date

\* C29 witness: fuzzy matching has answered for two candidates of different
\* dates that both score 0, and returned the one of the later date
C29_Witness ==
    /\ Len(resolution.candidates) = 2
    /\ resolution.candidates[1].Date > resolution.candidates[2].Date
    /\ \A m \in 1..2 : Score(resolution.candidates[m], resolution.query) = 0
    /\ Len(resolution.results) >= 1
    /\ resolution.results[1] = Found(resolution.candidates[1], 30, "fallback")

\* C30: when a run of the publish handler that found its post Scheduled
\* ends, the Status of the post is Published or Failed, whatever the adapter
\* and the commits did.
C30_HandlerLeavesScheduled ==
    [][\A i \in Inst, p \in PostIds :
          (/\ publishRun[i][p].pc \in {"read", "calling", "success", "failure",
                                         "register", "add_job"}
           /\ publishRun'[i][p].pc = "done")
          => posts'[p].Status \in {"Published", "Failed"}
      ]_vars
====
